---------------------------- MODULE Spec2Model ----------------------------
(***************************************************************************)
(* The in-memory retrieval store of tools/ingestion.py: split_text, the    *)
(* ingest_from_* operations that replace the module-level pair             *)
(* (doc_chunks, doc_embeddings), and get_top_chunks that ranks it.         *)
(*                                                                         *)
(* Strings are sequences of one-character strings.  The threads of the     *)
(* surrounding application (one per session) share the module globals; a   *)
(* step of the model is the code between two accesses of a global.         *)
(***************************************************************************)
EXTENDS Integers, Sequences, FiniteSets, TLC

(***************************************************************************)
(* Bounds of the model.                                                    *)
(***************************************************************************)
\* longest text handed to split_text called on its own
MaxTextLen == 5
\* largest chunk size handed to split_text called on its own
MaxSize == 3
\* with two threads: most words in a text handed to an ingest operation,
\* longest query and largest k handed to get_top_chunks
MaxIngestWords == 1
MaxQueryLen == 1
MaxK == 1
\* with one thread: the same three
MaxSeqWords == 2
MaxSeqQueryLen == 1
MaxSeqK == 2
\* the default size of split_text: CHUNK_SIZE, 300 in the source, scaled
\* down so that texts of MaxSeqWords words split into several chunks
ChunkSizeBound == 1

(***************************************************************************)
(* Strings                                                                 *)
(***************************************************************************)
Letters == {"a", "b"}
Whitespace == {" ", "\n"}
Chars == Letters \cup Whitespace

TextsOver(alphabet, n) == UNION {[1..m -> alphabet] : m \in 0..n}

Min(x, y) == IF x <= y THEN x ELSE y
Max(x, y) == IF x >= y THEN x ELSE y

\* str.split() with no argument: the maximal runs of non-whitespace
RECURSIVE SplitFrom(_, _, _, _)
SplitFrom(text, i, cur, words) ==
    IF i > Len(text)
    THEN IF cur = <<>> THEN words ELSE Append(words, cur)
    ELSE IF text[i] \in Whitespace
         THEN SplitFrom(text, i + 1, <<>>,
                        IF cur = <<>> THEN words ELSE Append(words, cur))
         ELSE SplitFrom(text, i + 1, Append(cur, text[i]), words)

StrSplit(text) == SplitFrom(text, 1, <<>>, <<>>)

\* sep.join(parts)
RECURSIVE StrJoin(_, _)
StrJoin(sep, parts) ==
    IF parts = <<>> THEN <<>>
    ELSE IF Len(parts) = 1 THEN parts[1]
    ELSE parts[1] \o sep \o StrJoin(sep, Tail(parts))

\* range(start, stop, step) for step # 0, as the sequence of its values
RECURSIVE PyRange(_, _, _)
PyRange(start, stop, step) ==
    IF step > 0
    THEN IF start < stop THEN <<start>> \o PyRange(start + step, stop, step)
         ELSE <<>>
    ELSE IF start > stop THEN <<start>> \o PyRange(start + step, stop, step)
         ELSE <<>>

\* seq[lo:hi] for 0 <= lo <= hi (0-based, hi exclusive, clamped to the length)
PySlice(seq, lo, hi) == SubSeq(seq, lo + 1, Min(hi, Len(seq)))

\* seq[:k]: a negative k counts from the end
PySliceTo(seq, k) ==
    IF k >= 0 THEN SubSeq(seq, 1, Min(k, Len(seq)))
    ELSE SubSeq(seq, 1, Max(Len(seq) + k, 0))

\* seq[::-1]
Reverse(seq) == [i \in 1..Len(seq) |-> seq[Len(seq) + 1 - i]]

(***************************************************************************)
(* split_text(text, size).  range() raises ValueError when its step is 0,  *)
(* and is empty when the step is negative and start <= stop.               *)
(***************************************************************************)
\* a variant that starts only the chunks that are full
SplitStartsFullOnly(n, size) == PyRange(0, n - size + 1, size)

SplitStarts(n, size) == PyRange(0, n, size)

\* a variant whose chunks run one word into the next chunk
ChunkWordsOverlap(words, i, size) == PySlice(words, i, i + size + 1)

ChunkWords(words, i, size) == PySlice(words, i, i + size)

split_text(text, size) ==
    LET words == StrSplit(text) IN
    IF size = 0
    THEN [err |-> "ValueError", val |-> <<>>]
    ELSE LET starts == SplitStarts(Len(words), size) IN
         [err |-> "none",
          val |-> [j \in 1..Len(starts) |->
                     StrJoin(<<" ">>, ChunkWords(words, starts[j], size))]]

(***************************************************************************)
(* The embedding model (model = SentenceTransformer(MODEL_NAME)) is an     *)
(* external library: encode maps each text, in order, to a vector of one   *)
(* fixed dimension, or raises.  Embed stands for it as a fixed function of *)
(* the text: one plus the count of each letter, so that no vector is zero, *)
(* as the model's are not.  Distinct texts can be equally similar to a     *)
(* query, as they can be under the model.                                  *)
(***************************************************************************)
RECURSIVE Count(_, _)
Count(str, c) ==
    IF str = <<>> THEN 0
    ELSE (IF Head(str) = c THEN 1 ELSE 0) + Count(Tail(str), c)

Embed(str) == <<1 + Count(str, "a"), 1 + Count(str, "b")>>

\* model.encode(texts, convert_to_numpy=True) when it does not raise
encode(texts) == [i \in 1..Len(texts) |-> Embed(texts[i])]

\* doc_embeddings is the list [] at import and a numpy array afterwards
PyList == [isArray |-> FALSE, rows |-> <<>>]
NdArray(rows) == [isArray |-> TRUE, rows |-> rows]

(***************************************************************************)
(* Cosine similarity, compared exactly.  sklearn's cosine_similarity       *)
(* normalises each row, leaving a zero row zero, so similarity with a zero *)
(* vector is 0.  cos(q,u) = Dot(q,u) / (|q| |u|); for one query q the      *)
(* order of cos(q,u) and cos(q,v) is that of SimNum/sqrt(SimDen).          *)
(***************************************************************************)
Dot(u, v) == u[1] * v[1] + u[2] * v[2]
Norm2(v) == Dot(v, v)
SimNum(q, u) == IF Norm2(q) = 0 \/ Norm2(u) = 0 THEN 0 ELSE Dot(q, u)
SimDen(q, u) == IF Norm2(q) = 0 \/ Norm2(u) = 0 THEN 1 ELSE Norm2(u)
SignedSq(x) == IF x >= 0 THEN x * x ELSE 0 - (x * x)

SimLess(q, u, v) ==
    SignedSq(SimNum(q, u)) * SimDen(q, v) < SignedSq(SimNum(q, v)) * SimDen(q, u)
SimEq(q, u, v) ==
    SignedSq(SimNum(q, u)) * SimDen(q, v) = SignedSq(SimNum(q, v)) * SimDen(q, u)

(***************************************************************************)
(* np.argsort(sims) with the default kind: ascending, and not stable, so   *)
(* the order among equal similarities is whatever the build produces.      *)
(* The outcomes are the orders of the ordinals 0..n-1 that are ascending.  *)
(***************************************************************************)
Orders(n) ==
    {f \in [1..n -> 0..(n - 1)] : \A i, j \in 1..n : i # j => f[i] # f[j]}

ArgsortOutcomes(q, rows) ==
    {f \in Orders(Len(rows)) :
        \A i \in 1..(Len(rows) - 1) :
            ~SimLess(q, rows[f[i + 1] + 1], rows[f[i] + 1])}

\* np.argsort(sims)[::-1][:k], for one outcome of argsort
TopIndices(order, k) == PySliceTo(Reverse(order), k)

\* "\n\n".join([doc_chunks[i] for i in indices if i < len(doc_chunks)])
JoinPicked(chunks, indices) ==
    LET kept == SelectSeq(indices, LAMBDA i : i < Len(chunks)) IN
    StrJoin(<<"\n", "\n">>, [j \in 1..Len(kept) |-> chunks[kept[j] + 1]])

\* the guard of get_top_chunks:
\* not doc_chunks or not isinstance(doc_embeddings, np.ndarray)
\*               or doc_embeddings.size == 0
\* a variant of the guard without its first test
NoDataVectorsOnly(chunks, emb) ==
    \/ ~emb.isArray
    \/ emb.rows = <<>>

NoData(chunks, emb) ==
    \/ chunks = <<>>
    \/ ~emb.isArray
    \/ emb.rows = <<>>

(***************************************************************************)
(* State.  doc_chunks and doc_embeddings are the module globals.  pc is    *)
(* each thread's position and frame its locals: vectors (the value of      *)
(* model.encode before it is assigned), q_emb, k, emb (the doc_embeddings  *)
(* that sims was computed from), indices and the returned value ret.       *)
(* frame also keeps a record of the call that the operations never read:   *)
(* overlapped (another ingest ran during this one), chunks (what this      *)
(* ingest's text split into, kept until it returns or is overlapped),      *)
(* wrote (this ingest changed the value of a global) and why (which return *)
(* statement was taken).  s_text, s_size and s_ret are a     *)
(* call of split_text on its own.                                          *)
(***************************************************************************)
VARIABLES doc_chunks, doc_embeddings, pc, frame, s_text, s_size, s_ret

vars == <<doc_chunks, doc_embeddings, pc, frame, s_text, s_size, s_ret>>
storeVars == <<doc_chunks, doc_embeddings, pc, frame>>
splitVars == <<s_text, s_size, s_ret>>

\* the threads (one per session) that share the module globals
Procs == {"t1", "t2"}
Sources == {"text", "pdf", "website", "youtube", "gdrive"}
\* the texts ingested: up to n one-letter words, and a text of nothing but
\* whitespace
TextsOfWords(n) ==
    {StrJoin(<<" ">>, [i \in 1..Len(w) |-> <<w[i]>>]) :
        w \in TextsOver(Letters, n)} \cup {<<" ", "\n">>}
IngestTexts == TextsOfWords(MaxIngestWords)
Queries == TextsOver(Letters, MaxQueryLen)
Ks == (0 - 1)..MaxK
SeqIngestTexts == TextsOfWords(MaxSeqWords)
SeqQueries == TextsOver(Letters, MaxSeqQueryLen)
SeqKs == (0 - 1)..MaxSeqK

NoRet == [kind |-> "none", val |-> <<>>]
RetNone == [kind |-> "None", val |-> <<>>]
RetStr(str) == [kind |-> "str", val |-> str]
\* the messages of the ingest operations, by their kind
RetOk == [kind |-> "ok", val |-> <<>>]
RetFailed == [kind |-> "failed", val |-> <<>>]
RetNothing == [kind |-> "nothing", val |-> <<>>]

NoFrame ==
    [op |-> "none", ret |-> NoRet, vectors |-> <<>>,
     q_emb |-> <<0, 0>>, k |-> 0, emb |-> PyList, indices |-> <<>>,
     chunks |-> <<>>, wrote |-> FALSE, overlapped |-> FALSE, why |-> ""]

Ingesting(p) == pc[p] \in {"i_encode", "i_store"}
OthersIngesting(p) == \E r \in Procs \ {p} : Ingesting(r)

StoreInit ==
    /\ doc_chunks = <<>>
    /\ doc_embeddings = PyList
    /\ pc = [p \in Procs |-> "idle"]
    /\ frame = [p \in Procs |-> NoFrame]

(***************************************************************************)
(* ingest_from_text / _pdf / _website / _youtube / _gdrive.  All five end  *)
(* in the same two statements:                                             *)
(*     doc_chunks = self.split_text(text)                                  *)
(*     doc_embeddings = model.encode(doc_chunks, convert_to_numpy=True)    *)
(* inside try/except Exception that returns a failure message.             *)
(***************************************************************************)

\* the call up to and including the assignment of doc_chunks; the sources
\* other than pasted text can raise while the text is fetched, and
\* ingest_from_gdrive can return early, before either global is touched
IngestCall(p, src, text) ==
    /\ pc[p] = "idle"
    /\ \/ /\ doc_chunks' = split_text(text, ChunkSizeBound).val
          /\ pc' = [pc EXCEPT ![p] = "i_encode"]
          /\ frame' = [q \in Procs |->
                IF q = p
                THEN [NoFrame EXCEPT !.op = "ingest",
                                     !.chunks = IF OthersIngesting(p) THEN <<>>
                                                ELSE doc_chunks',
                                     !.wrote = (doc_chunks' # doc_chunks),
                                     !.overlapped = OthersIngesting(p)]
                ELSE IF Ingesting(q)
                     THEN [frame[q] EXCEPT !.overlapped = TRUE, !.chunks = <<>>]
                     ELSE frame[q]]
          /\ UNCHANGED doc_embeddings
       \/ /\ src # "text"
          /\ pc' = [pc EXCEPT ![p] = "done"]
          /\ frame' = [frame EXCEPT ![p] =
                [NoFrame EXCEPT !.op = "ingest", !.why = "fetch_raised",
                                !.ret = RetFailed]]
          /\ UNCHANGED <<doc_chunks, doc_embeddings>>
       \/ /\ src = "gdrive"
          /\ pc' = [pc EXCEPT ![p] = "done"]
          /\ frame' = [frame EXCEPT ![p] =
                [NoFrame EXCEPT !.op = "ingest", !.why = "nothing_found",
                                !.ret = RetNothing]]
          /\ UNCHANGED <<doc_chunks, doc_embeddings>>
    /\ UNCHANGED splitVars

\* model.encode(doc_chunks, ...): reads the global, then returns the vectors
\* or raises; a raise is caught and the failure message returned
IngestEncode(p) ==
    /\ pc[p] = "i_encode"
    /\ \/ /\ pc' = [pc EXCEPT ![p] = "i_store"]
          /\ frame' = [frame EXCEPT ![p].vectors = encode(doc_chunks)]
       \/ /\ pc' = [pc EXCEPT ![p] = "done"]
          /\ frame' = [frame EXCEPT ![p].why = "encode_raised",
                                    ![p].ret = RetFailed,
                                    ![p].chunks = <<>>]
    /\ UNCHANGED <<doc_chunks, doc_embeddings>>
    /\ UNCHANGED splitVars

\* a variant of the last statement that extends the vectors already stored
\* instead of replacing them
IngestStoreAppend(p) ==
    /\ pc[p] = "i_store"
    /\ doc_embeddings' = NdArray(doc_embeddings.rows \o frame[p].vectors)
    /\ pc' = [pc EXCEPT ![p] = "done"]
    /\ frame' = [frame EXCEPT ![p].ret = RetOk,
                              ![p].why = "stored",
                              ![p].vectors = <<>>,
                              ![p].chunks = <<>>,
                              ![p].wrote = (frame[p].wrote
                                            \/ doc_embeddings' # doc_embeddings)]
    /\ UNCHANGED doc_chunks
    /\ UNCHANGED splitVars

\* the assignment of doc_embeddings and the success message
IngestStore(p) ==
    /\ pc[p] = "i_store"
    /\ doc_embeddings' = NdArray(frame[p].vectors)
    /\ pc' = [pc EXCEPT ![p] = "done"]
    /\ frame' = [frame EXCEPT ![p].ret = RetOk,
                              ![p].why = "stored",
                              ![p].vectors = <<>>,
                              ![p].chunks = <<>>,
                              ![p].wrote = (frame[p].wrote
                                            \/ doc_embeddings' # doc_embeddings)]
    /\ UNCHANGED doc_chunks
    /\ UNCHANGED splitVars

(***************************************************************************)
(* get_top_chunks(query, k)                                                *)
(***************************************************************************)

\* the guard, then model.encode([query]); a raise of encode is caught,
\* logged, and None returned
QueryCall(p, query, k) ==
    /\ pc[p] = "idle"
    /\ IF NoData(doc_chunks, doc_embeddings)
       THEN /\ pc' = [pc EXCEPT ![p] = "done"]
            /\ frame' = [frame EXCEPT ![p] =
                  [NoFrame EXCEPT !.op = "query", !.why = "no_data",
                                  !.ret = RetNone]]
       ELSE \/ /\ pc' = [pc EXCEPT ![p] = "q_sims"]
               /\ frame' = [frame EXCEPT ![p] =
                     [NoFrame EXCEPT !.op = "query", !.k = k,
                                     !.q_emb = Embed(query)]]
            \/ /\ pc' = [pc EXCEPT ![p] = "done"]
               /\ frame' = [frame EXCEPT ![p] =
                     [NoFrame EXCEPT !.op = "query", !.why = "encode_raised",
                                     !.ret = RetNone]]
    /\ UNCHANGED <<doc_chunks, doc_embeddings>>
    /\ UNCHANGED splitVars

\* sims = cosine_similarity(query_emb, doc_embeddings)[0] and
\* indices = np.argsort(sims)[::-1][:k]; cosine_similarity raises on an
\* array without rows, which is caught, logged, and None returned
QuerySims(p) ==
    /\ pc[p] = "q_sims"
    /\ IF doc_embeddings.rows = <<>>
       THEN /\ pc' = [pc EXCEPT ![p] = "done"]
            /\ frame' = [frame EXCEPT ![p] =
                  [NoFrame EXCEPT !.op = "query", !.why = "sims_raised",
                                  !.ret = RetNone]]
       ELSE \E order \in ArgsortOutcomes(frame[p].q_emb, doc_embeddings.rows) :
            /\ pc' = [pc EXCEPT ![p] = "q_join"]
            /\ frame' = [frame EXCEPT ![p].indices = TopIndices(order, frame[p].k),
                                      ![p].emb = doc_embeddings]
    /\ UNCHANGED <<doc_chunks, doc_embeddings>>
    /\ UNCHANGED splitVars

\* return "\n\n".join([doc_chunks[i] for i in indices if i < len(doc_chunks)])
QueryJoin(p) ==
    /\ pc[p] = "q_join"
    /\ pc' = [pc EXCEPT ![p] = "done"]
    /\ frame' = [frame EXCEPT ![p] =
          [NoFrame EXCEPT !.op = "query", !.why = "joined",
                          !.ret = RetStr(JoinPicked(doc_chunks, frame[p].indices))]]
    /\ UNCHANGED <<doc_chunks, doc_embeddings>>
    /\ UNCHANGED splitVars

\* the caller takes the returned value
Return(p) ==
    /\ pc[p] = "done"
    /\ pc' = [pc EXCEPT ![p] = "idle"]
    /\ frame' = [frame EXCEPT ![p] = NoFrame]
    /\ UNCHANGED <<doc_chunks, doc_embeddings>>
    /\ UNCHANGED splitVars

Pending == [err |-> "pending", val |-> <<>>]

Init ==
    /\ StoreInit
    /\ s_text = <<>>
    /\ s_size = ChunkSizeBound
    /\ s_ret = Pending

Next ==
    \/ \E p \in Procs, src \in Sources, text \in IngestTexts : IngestCall(p, src, text)
    \/ \E p \in Procs : IngestEncode(p)
    \/ \E p \in Procs : IngestStore(p)
    \/ \E p \in Procs, query \in Queries, k \in Ks : QueryCall(p, query, k)
    \/ \E p \in Procs : QuerySims(p)
    \/ \E p \in Procs : QueryJoin(p)
    \/ \E p \in Procs : Return(p)

Spec == Init /\ [][Next]_vars

(***************************************************************************)
(* One thread calling the operations one after the other.                  *)
(***************************************************************************)
SeqNext ==
    \/ \E src \in Sources, text \in SeqIngestTexts : IngestCall("t1", src, text)
    \/ IngestEncode("t1")
    \/ IngestStore("t1")
    \/ \E query \in SeqQueries, k \in SeqKs : QueryCall("t1", query, k)
    \/ QuerySims("t1")
    \/ QueryJoin("t1")
    \/ Return("t1")

SeqSpec == Init /\ [][SeqNext]_vars

(***************************************************************************)
(* The threads calling the ingest operations only, with the longer texts.  *)
(* get_top_chunks assigns neither global, so the values the globals take   *)
(* are the same with and without it.                                       *)
(***************************************************************************)
IngestNext ==
    \/ \E p \in Procs, src \in Sources, text \in SeqIngestTexts :
          IngestCall(p, src, text)
    \/ \E p \in Procs : IngestEncode(p)
    \/ \E p \in Procs : IngestStore(p)
    \/ \E p \in Procs : Return(p)

IngestSpec == Init /\ [][IngestNext]_vars

(***************************************************************************)
(* split_text on its own: the inputs are drawn in SplitInit, CallSplit     *)
(* applies the function.                                                   *)
(***************************************************************************)
SplitInputs ==
    /\ s_text \in TextsOver(Chars, MaxTextLen)
    /\ s_size \in (0 - 2)..MaxSize

CallSplit ==
    /\ s_ret = Pending
    /\ s_ret' = split_text(s_text, s_size)
    /\ UNCHANGED <<s_text, s_size>>
    /\ UNCHANGED storeVars

SplitInit == StoreInit /\ SplitInputs /\ s_ret = Pending
SplitNext == CallSplit
SplitSpec == SplitInit /\ [][SplitNext]_vars

(***************************************************************************)
(* What the properties are stated with: the whitespace-delimited tokens of *)
(* a text, read off the text position by position, and the passages of a   *)
(* result of get_top_chunks, which are separated by a blank line.          *)
(***************************************************************************)
TokenStarts(text) ==
    {i \in 1..Len(text) :
        text[i] \notin Whitespace /\ (i = 1 \/ text[i - 1] \in Whitespace)}

TokenEnd(text, i) ==
    CHOOSE e \in i..Len(text) :
        /\ \A j \in i..e : text[j] \notin Whitespace
        /\ e = Len(text) \/ text[e + 1] \in Whitespace

NthStart(text, j) ==
    CHOOSE i \in TokenStarts(text) :
        Cardinality({h \in TokenStarts(text) : h < i}) = j - 1

Tokens(text) ==
    [j \in 1..Cardinality(TokenStarts(text)) |->
        SubSeq(text, NthStart(text, j), TokenEnd(text, NthStart(text, j)))]

RECURSIVE Flatten(_)
Flatten(seqs) == IF seqs = <<>> THEN <<>> ELSE Head(seqs) \o Flatten(Tail(seqs))

CeilDiv(n, d) == (n + d - 1) \div d

IsBreak(str, i) == i < Len(str) /\ str[i] = "\n" /\ str[i + 1] = "\n"

RECURSIVE PassagesFrom(_, _, _, _)
PassagesFrom(str, i, cur, acc) ==
    IF i > Len(str) THEN Append(acc, cur)
    ELSE IF IsBreak(str, i) THEN PassagesFrom(str, i + 2, <<>>, Append(acc, cur))
    ELSE PassagesFrom(str, i + 1, Append(cur, str[i]), acc)

\* no chunk is empty, so the empty string holds no passage
Passages(str) == IF str = <<>> THEN <<>> ELSE PassagesFrom(str, 1, <<>>, <<>>)

Returned(p) == pc[p] = "done"
Joins(p) == pc[p] = "q_join" /\ pc'[p] = "done"

(***************************************************************************)
(* C1: in every reachable state the number of stored chunks equals the     *)
(* number of stored vectors.                                               *)
(***************************************************************************)
C1_CountsAgree == Len(doc_chunks) = Len(doc_embeddings.rows)

(***************************************************************************)
(* C2: an ingest that returns a failure status has changed neither         *)
(* doc_chunks nor doc_embeddings.                                          *)
(***************************************************************************)
C2_FailedIngestLeavesStore ==
    \A p \in Procs :
        (Returned(p) /\ frame[p].op = "ingest" /\ frame[p].ret = RetFailed)
            => ~frame[p].wrote

(***************************************************************************)
(* C3: when get_top_chunks joins its result while an ingest is running in *)
(* another thread, the vectors it ranked are the vectors of the chunks it  *)
(* reads: both belong to one generation of the collection.                 *)
(***************************************************************************)
C3_OneGeneration ==
    [][\A p \in Procs :
          (Joins(p) /\ OthersIngesting(p))
              => frame[p].emb = NdArray(encode(doc_chunks))]_vars

(***************************************************************************)
(* C4: a call of get_top_chunks made while the store holds zero chunks     *)
(* returns None at once, for every query and every k.                      *)
(***************************************************************************)
C4_EmptyStoreNoData ==
    [][\A p \in Procs :
          (pc[p] = "idle" /\ frame'[p].op = "query" /\ doc_chunks = <<>>)
              => (pc'[p] = "done" /\ frame'[p].ret = RetNone)]_vars

\* a query has returned None from the guard, the store holding no chunk but
\* still the vectors of an earlier ingest
C4_Witness ==
    \E p \in Procs :
        /\ Returned(p)
        /\ frame[p].op = "query"
        /\ frame[p].why = "no_data"
        /\ frame[p].ret = RetNone
        /\ doc_chunks = <<>>
        /\ doc_embeddings.isArray
        /\ doc_embeddings.rows # <<>>

(***************************************************************************)
(* C5: a get_top_chunks whose embedding call raised returns something      *)
(* other than the None it returns for a store without data.                *)
(***************************************************************************)
C5_EmbeddingFailureDistinct ==
    \A p \in Procs :
        (Returned(p) /\ frame[p].op = "query" /\ frame[p].why = "encode_raised")
            => frame[p].ret # RetNone

(***************************************************************************)
(* C6: on a store whose vectors are those of its chunks and for k >= 0, of *)
(* two chunks of different text and equal similarity to the query the one  *)
(* with the lower ordinal is returned first, and is the one returned when  *)
(* k leaves room for only one of them.                                     *)
(***************************************************************************)
TieBreakOK(q, chunks, rows, picked) ==
    LET Tied(i, j) == /\ SimEq(q, rows[i + 1], rows[j + 1])
                      /\ chunks[i + 1] # chunks[j + 1]
        Picked == {picked[x] : x \in 1..Len(picked)}
    IN  /\ \A x, y \in 1..Len(picked) :
              (x < y /\ Tied(picked[x], picked[y])) => picked[x] < picked[y]
        /\ \A i \in Picked, j \in (0..(Len(rows) - 1)) \ Picked :
              Tied(i, j) => i < j

C6_TieBreakByOrdinal ==
    [][\A p \in Procs :
          (Joins(p) /\ frame[p].k >= 0
                    /\ frame[p].emb = NdArray(encode(doc_chunks)))
              => TieBreakOK(frame[p].q_emb, doc_chunks, frame[p].emb.rows,
                            frame[p].indices)]_vars

(***************************************************************************)
(* C7: split_text with a size that is zero or negative ends in an error,   *)
(* for every text.                                                         *)
(***************************************************************************)
C7_NonPositiveSizeFails ==
    (s_ret # Pending /\ s_size <= 0) => s_ret.err # "none"

(***************************************************************************)
(* C8: with k >= 0 and n >= 1 chunks in the store, get_top_chunks returns  *)
(* min(k, n) passages: the chunks most similar to the query, in descending *)
(* order of similarity.                                                    *)
(***************************************************************************)
IsTopK(res, chunks, q, k) ==
    LET n == Len(chunks)
        Sim(f, i) == Embed(chunks[f[i] + 1])
    IN  /\ Len(res) = Min(k, n)
        /\ \E f \in Orders(n) :
              /\ \A i \in 1..(n - 1) : ~SimLess(q, Sim(f, i), Sim(f, i + 1))
              /\ \A j \in 1..Min(k, n) : res[j] = chunks[f[j] + 1]

C8_TopKDescending ==
    [][\A p \in Procs :
          (Joins(p) /\ frame[p].k >= 0 /\ doc_chunks # <<>>)
              => IsTopK(Passages(frame'[p].ret.val), doc_chunks,
                        frame[p].q_emb, frame[p].k)]_vars

(***************************************************************************)
(* C9: for a positive size S and a text of N tokens, split_text returns    *)
(* ceil(N/S) chunks, each of S tokens but the last, which has 1 to S.      *)
(***************************************************************************)
C9_ChunkCount ==
    (s_ret # Pending /\ s_size > 0) =>
        LET n == Len(Tokens(s_text))
            chunks == s_ret.val
        IN  /\ s_ret.err = "none"
            /\ Len(chunks) = CeilDiv(n, s_size)
            /\ \A i \in 1..Len(chunks) :
                  LET c == Len(Tokens(chunks[i])) IN
                  IF i < Len(chunks) THEN c = s_size
                  ELSE c >= 1 /\ c <= s_size

\* three tokens split by two: a last chunk that is not full
C9_Witness ==
    /\ s_ret # Pending
    /\ s_size = 2
    /\ Len(Tokens(s_text)) = 3
    /\ Len(s_ret.val) = 2
    /\ Len(Tokens(s_ret.val[2])) = 1

(***************************************************************************)
(* C10: for a positive size, chunk i holds the tokens [i*size,             *)
(* (i+1)*size) of the text, and the tokens of the chunks in order are the  *)
(* tokens of the text.                                                     *)
(***************************************************************************)
C10_Reconstruction ==
    (s_ret # Pending /\ s_size > 0) =>
        LET toks == Tokens(s_text)
            chunks == s_ret.val
        IN  /\ \A i \in 0..(Len(chunks) - 1) :
                  Tokens(chunks[i + 1]) =
                      SubSeq(toks, i * s_size + 1, Min((i + 1) * s_size, Len(toks)))
            /\ Flatten([i \in 1..Len(chunks) |-> Tokens(chunks[i])]) = toks

\* a text whose whitespace the chunks do not reproduce, split into two
C10_Witness ==
    /\ s_ret # Pending
    /\ s_size > 0
    /\ Len(s_ret.val) = 2
    /\ s_text[1] \in Whitespace
    /\ StrJoin(<<" ">>, s_ret.val) # s_text

(***************************************************************************)
(* C11: when an ingest that no other ingest overlapped stores its vectors  *)
(* and returns success, the store holds exactly the chunks of that         *)
(* ingest's text and one vector per chunk, vector i being the embedding of *)
(* chunk i: nothing of the previous collection is left and nothing is      *)
(* appended to it, and a text without tokens leaves zero chunks and zero   *)
(* vectors.                                                                *)
(***************************************************************************)
C11_SuccessfulIngestReplaces ==
    [][\A p \in Procs :
          (pc[p] = "i_store" /\ pc'[p] = "done" /\ ~frame[p].overlapped)
              => /\ frame'[p].ret = RetOk
                 /\ doc_chunks' = frame[p].chunks
                 /\ doc_embeddings'.isArray
                 /\ Len(doc_embeddings'.rows) = Len(frame[p].chunks)
                 /\ \A i \in 1..Len(frame[p].chunks) :
                       doc_embeddings'.rows[i] = Embed(frame[p].chunks[i])
                 /\ (frame[p].chunks = <<>>
                        => doc_chunks' = <<>> /\ doc_embeddings'.rows = <<>>)]_vars

\* an ingest that nothing overlapped has returned success after changing the
\* store, no other call is in progress, and the store holds two different
\* chunks, each with its own vector
C11_Witness ==
    \E p \in Procs :
        /\ Returned(p)
        /\ frame[p].op = "ingest"
        /\ frame[p].ret = RetOk
        /\ ~frame[p].overlapped
        /\ frame[p].wrote
        /\ \A q \in Procs \ {p} : pc[q] = "idle"
        /\ Len(doc_chunks) = 2
        /\ doc_chunks[1] # doc_chunks[2]
        /\ Len(doc_embeddings.rows) = 2
        /\ \A i \in 1..2 : doc_embeddings.rows[i] = Embed(doc_chunks[i])
        /\ doc_embeddings.rows[1] # doc_embeddings.rows[2]

=============================================================================
